---- MODULE Spec2Model ----
(***************************************************************************)
(* The game-state simulation of boa (src/boa/boa.py): the Game object, the *)
(* Snake it owns and the per-frame handler update_game.  One action,       *)
(* update_game(keys, dt), is one call of the handler with the set of keys  *)
(* raylib reports as pressed in that frame and the frame time dt.          *)
(*                                                                         *)
(* The grid is scaled down from the program's 15 x 10 to 3 x 2, the        *)
(* smallest torus on which the initial snake can turn, and time is counted *)
(* in milliseconds, so STEP_INTERVAL = 0.125 s is 125.                     *)
(* Cosmetic state (hue, line_hue, particles) is left out: no statement     *)
(* below reads it and the simulation never reads it back.                  *)
(***************************************************************************)
EXTENDS Integers, Sequences, FiniteSets, TLC

\* ---- bounds of the model
\* the most pending directions a call may leave on the queue
MaxQueue == 1

\* frame times offered to a call, in ms: no time, less than an interval,
\* more than three intervals
DeltaTimes == {0, 70, 400}

\* ---- program constants
COLS == 3
ROWS == 2
STEP_INTERVAL == 125

\* class Direction(IntEnum): LEFT = auto(0), then DOWN, RIGHT, UP
LEFT == 0
DOWN == 1
RIGHT == 2
UP == 3

Direction == {LEFT, DOWN, RIGHT, UP}

Vector2(x, y) == <<x, y>>

\* mutant of directions: the horizontal unit vectors swapped
directions_mirrored ==
  [d \in Direction |->
     CASE d = LEFT  -> Vector2(1, 0)
       [] d = RIGHT -> Vector2(-1, 0)
       [] d = DOWN  -> Vector2(0, 1)
       [] d = UP    -> Vector2(0, -1)]

\* the module-level dictionary from Direction to its unit vector
directions ==
  [d \in Direction |->
     CASE d = LEFT  -> Vector2(-1, 0)
       [] d = RIGHT -> Vector2(1, 0)
       [] d = DOWN  -> Vector2(0, 1)
       [] d = UP    -> Vector2(0, -1)]

\* Python's None, for Game.apple
None == <<>>

KeyboardKey == {"SPACE", "R", "W", "D", "S", "A"}

\* the sets of keys a frame reports as pressed: none, any single key, and
\* SPACE with R, which the if/elif of update_game orders
KeySets == {{}} \cup {{k} : k \in KeyboardKey} \cup {{"SPACE", "R"}}

VARIABLES
  cells,          \* game.snake.cells, tail first, head last
  dir,            \* game.snake.dir
  next_dirs,      \* game.next_dirs, a FIFO queue, front first
  game_over,      \* game.game_over
  pause,          \* game.pause
  step_cooldown,  \* game.step_cooldown
  score,          \* game.score
  apple,          \* game.apple, a cell or None
  hung,           \* new_apple is sampling with no free cell: it never returns
  last,           \* history: the path the last call of the handler took
  deq,            \* history: the directions that call took off the queue
  dropped         \* history: a direction key was down in that call's frame
                  \* and the call returned without polling it

vars == <<cells, dir, next_dirs, game_over, pause, step_cooldown, score,
          apple, hung, last, deq, dropped>>

\* ---- Game's helpers

Grid == {Vector2(x, y) : x \in 0..(COLS - 1), y \in 0..(ROWS - 1)}

\* Game.random_cell: every cell random.randint can produce
random_cell == Grid

\* mutant of cell_step: the sum is not wrapped
cell_step_nowrap(a, b) == Vector2(a[1] + b[1], a[2] + b[2])

cell_step(a, b) == Vector2((a[1] + b[1]) % COLS, (a[2] + b[2]) % ROWS)

\* mutant of opposite_dir: a quarter turn
opposite_dir_quarter(direction) ==
  (direction + 1) % Cardinality(DOMAIN directions)

opposite_dir(direction) == (direction + 2) % Cardinality(DOMAIN directions)

\* Snake.head
head(cs) == cs[Len(cs)]

\* Snake.is_body
is_body(cs, cell) == \E i \in 1..Len(cs) : cs[i] = cell

\* mutant of pop0: the second cell is removed, not the first
pop1(cs) == <<cs[1]>> \o SubSeq(cs, 3, Len(cs))

\* Snake.pop(0)
pop0(cs) == SubSeq(cs, 2, Len(cs))

\* mutant of new_apple: the loop takes the first sample, body cell or not
new_apple_unchecked(cs, old) ==
  IF Len(cs) = ROWS * COLS THEN {old} ELSE random_cell

\* mutant of new_apple: the test for a full-length snake is missing
new_apple_untested(cs, old) == {c \in random_cell : ~is_body(cs, c)}

\* Game.new_apple: the values self.apple can hold when the call returns,
\* given the snake and the value self.apple holds at the call.  A full-length
\* snake returns at once and leaves self.apple as it is; otherwise the loop
\* leaves with any sampled cell that is no body cell.  The empty set is the
\* loop that never leaves.
new_apple(cs, old) ==
  IF Len(cs) = ROWS * COLS
    THEN {old}
    ELSE {c \in random_cell : ~is_body(cs, c)}

\* the snake Game.reset_game builds
reset_cells == <<Vector2(0, 0), Vector2(1, 0), Vector2(2, 0)>>

\* mutant of reset_cooldown: the countdown starts at a full interval
reset_cooldown_full == STEP_INTERVAL

\* the countdown Game.reset_game sets
reset_cooldown == 0

\* mutant of reset_game: the pending directions survive the reset
reset_game_keeps_queue(tag, k) ==
  /\ next_dirs' = next_dirs
  /\ cells' = reset_cells
  /\ dir' = RIGHT
  /\ game_over' = FALSE
  /\ pause' = FALSE
  /\ step_cooldown' = 0
  /\ score' = 0
  /\ apple' \in new_apple(reset_cells, None)
  /\ hung' = FALSE
  /\ last' = tag
  /\ deq' = <<>>
  /\ dropped' = k

\* Game.reset_game, which sets self.apple to None and then calls new_apple
\* on the three-cell snake; tag and k are the history entries
reset_game(tag, k) ==
  /\ next_dirs' = <<>>
  /\ cells' = reset_cells
  /\ dir' = RIGHT
  /\ game_over' = FALSE
  /\ pause' = FALSE
  /\ step_cooldown' = reset_cooldown
  /\ score' = 0
  /\ apple' \in new_apple(reset_cells, None)
  /\ hung' = FALSE
  /\ last' = tag
  /\ deq' = <<>>
  /\ dropped' = k

\* Game.__init__: the state reset_game leaves
Init ==
  /\ next_dirs = <<>>
  /\ cells = reset_cells
  /\ dir = RIGHT
  /\ game_over = FALSE
  /\ pause = FALSE
  /\ step_cooldown = reset_cooldown
  /\ score = 0
  /\ apple \in new_apple(reset_cells, None)
  /\ hung = FALSE
  /\ last = "init"
  /\ deq = <<>>
  /\ dropped = FALSE

\* the if/elif chain over W, D, S, A: what one frame puts on the queue
pressed_dir(keys) ==
  IF "W" \in keys THEN <<UP>>
  ELSE IF "D" \in keys THEN <<RIGHT>>
  ELSE IF "S" \in keys THEN <<DOWN>>
  ELSE IF "A" \in keys THEN <<LEFT>>
  ELSE <<>>

\* mutant of turn: the reversal test is missing
turn_always(d, next_dir) == next_dir

\* the direction the snake travels in after taking next_dir off the queue
turn(d, next_dir) == IF d # opposite_dir(next_dir) THEN next_dir ELSE d

\* mutant of eats: every step takes the growth branch
eats_always(cs, new_head, ap) == TRUE

\* the test that selects the growth branch of a step
eats(cs, new_head, ap) == head(cs) = ap

\* the test that selects the game-over branch of a step
collides(cs, new_head) == is_body(cs, new_head)

\* mutant of scored: growth leaves the score as it is
scored_not(s) == s

\* game.score += 1
scored(s) == s + 1

\* mutant of rearm: a step leaves two intervals on the countdown
rearm_twice == STEP_INTERVAL + STEP_INTERVAL

\* the countdown a step leaves
rearm == STEP_INTERVAL

\* mutant of live: the game_over test is missing
live_always(over) == TRUE

\* whether the handler goes past the game_over test
live(over) == ~over

\* mutant of frozen: the pause test is missing
frozen_never(p) == FALSE

\* whether the handler returns at the pause test
frozen(p) == p

\* mutant of get: the queue hands out its newest entry
get_newest(queue) == queue[Len(queue)]

\* game.next_dirs.get(block=False) on a non-empty queue: the entry returned
get(queue) == Head(queue)

\* the simulation step: the body of "if game.step_cooldown <= 0.0", with
\* queue the pending directions at that point
step(queue) ==
  LET got == IF queue # <<>> THEN <<get(queue)>> ELSE <<>>
      d2 == IF got # <<>> THEN turn(dir, got[1]) ELSE dir
      snake_step == directions[d2]
      new_head == cell_step(head(cells), snake_step)
      grown == Append(cells, new_head)
  IN
  /\ step_cooldown' = rearm
  /\ next_dirs' = IF queue # <<>> THEN Tail(queue) ELSE queue
  /\ dir' = d2
  /\ deq' = got
  /\ IF eats(cells, new_head, apple)
       THEN /\ cells' = grown
            /\ game_over' = game_over
            /\ IF new_apple(grown, apple) = {}
                 THEN apple' = apple /\ score' = score /\ hung' = TRUE
                      /\ last' = "hang"
                 ELSE apple' \in new_apple(grown, apple) /\ score' = scored(score)
                      /\ hung' = FALSE /\ last' = "grow"
       ELSE IF collides(cells, new_head)
         THEN /\ game_over' = TRUE
              /\ last' = "collide"
              /\ UNCHANGED <<cells, apple, score, hung>>
         ELSE /\ cells' = pop0(grown)
              /\ last' = "move"
              /\ UNCHANGED <<game_over, apple, score, hung>>

\* mutant of due: no call ever steps
due_never(cooldown) == FALSE

\* mutant of due: every running call steps
due_always(cooldown) == TRUE

\* the test "if game.step_cooldown <= 0.0" on the decremented countdown
due(cooldown) == cooldown <= 0

\* update_game from "if game.pause" on, with p the value of game.pause there
running(p, keys, dt) ==
  /\ pause' = p
  /\ dropped' = ((frozen(p) \/ ~live(game_over)) /\ pressed_dir(keys) # <<>>)
  /\ IF frozen(p)
       THEN /\ last' = (IF pause THEN "paused" ELSE "pause_on") /\ deq' = <<>>
            /\ UNCHANGED <<cells, dir, next_dirs, game_over, step_cooldown,
                           score, apple, hung>>
       ELSE IF ~live(game_over)
         THEN /\ last' = "over" /\ deq' = <<>>
              /\ UNCHANGED <<cells, dir, next_dirs, game_over, step_cooldown,
                             score, apple, hung>>
         ELSE IF due(step_cooldown - dt)
           THEN step(next_dirs \o pressed_dir(keys))
           ELSE /\ next_dirs' = next_dirs \o pressed_dir(keys)
                /\ step_cooldown' = step_cooldown - dt
                /\ last' = "wait" /\ deq' = <<>>
                /\ UNCHANGED <<cells, dir, game_over, score, apple, hung>>

\* one call of update_game(game, dt) in a frame whose pressed keys are keys
update_game(keys, dt) ==
  /\ ~hung
  /\ IF "SPACE" \in keys
       THEN running(~pause, keys, dt)
       ELSE IF "R" \in keys
         THEN reset_game("reset", pressed_dir(keys) # <<>>)
         ELSE running(pause, keys, dt)
  /\ Len(next_dirs') <= MaxQueue

Next == \E keys \in KeySets, dt \in DeltaTimes : update_game(keys, dt)

Spec == Init /\ [][Next]_vars

\* ---- the claims

\* the paths of a call that ran a simulation step
StepTags == {"grow", "hang", "collide", "move"}

\* in a transition that is a simulation step: the new head cell the step
\* computes, the current head stepped one cell in the travel direction
NewHead == cell_step(head(cells), directions[dir'])

\* C1 (as claimed): a step whose new head cell equals the target appends the
\* new head without removing the tail, adds 1 to the score and asks for a
\* new target.
CE_C1 ==
  [][(last' \in StepTags /\ NewHead = apple)
       => (/\ cells' = Append(cells, NewHead)
           /\ score' = score + 1
           /\ last' = "grow")]_vars

\* C2 (as claimed): a step whose new head cell is already a cell of the
\* creature sets game_over and leaves the cell sequence and the score as
\* they were.
CE_C2 ==
  [][(last' \in StepTags /\ (\E i \in 1..Len(cells) : cells[i] = NewHead))
       => (game_over' /\ cells' = cells /\ score' = score)]_vars

\* C3 (as claimed): a step whose new head cell is neither the target nor a
\* cell of the creature drops the tail and appends the new head; length,
\* score, target and game_over stay.
CE_C3 ==
  [][(/\ last' \in StepTags
      /\ NewHead # apple
      /\ ~(\E i \in 1..Len(cells) : cells[i] = NewHead))
       => (/\ cells' = Tail(cells) \o <<NewHead>>
           /\ Len(cells') = Len(cells)
           /\ score' = score
           /\ apple' = apple
           /\ game_over' = game_over)]_vars

\* the opposite pairs, written out: LEFT <-> RIGHT, UP <-> DOWN
Reverse(d) ==
  CASE d = LEFT -> RIGHT [] d = RIGHT -> LEFT [] d = UP -> DOWN [] d = DOWN -> UP

\* C4 (as claimed): a step that dequeues the opposite of the travel direction
\* d keeps d and advances the head in d; any other dequeued direction
\* becomes the travel direction.
CE_C4 ==
  [][(last' \in StepTags /\ deq' # <<>>)
       => IF deq'[1] = Reverse(dir)
            THEN /\ dir' = dir
                 /\ head(cells') = cell_step(head(cells), directions[dir])
            ELSE dir' = deq'[1]]_vars

\* C4 (amended): a step that dequeues the opposite of the travel direction d
\* keeps d, any other dequeued direction becomes the travel direction, and
\* the step's move is made in the resulting direction: the head advances one
\* cell in it unless the step ends the game on a self-collision.
Thm_C4 ==
  [][(last' \in StepTags /\ deq' # <<>>)
       => /\ dir' = (IF deq'[1] = Reverse(dir) THEN dir ELSE deq'[1])
          /\ last' # "collide"
               => head(cells') = cell_step(head(cells), directions[dir'])
          /\ last' = "collide" => cells' = cells]_vars

\* a step has dequeued the opposite of the travel direction, kept the
\* direction and advanced the head
Witness_C4 ==
  /\ last = "move"
  /\ deq # <<>>
  /\ deq[1] = Reverse(dir)

\* C5 (as claimed): the target, when present, is no cell of the creature.
CE_C5 == apple # None => ~(\E i \in 1..Len(cells) : cells[i] = apple)

\* C6: once game_over holds, no call but a reset changes the creature, the
\* target, the score, the travel direction or game_over, and a reset leaves
\* the session running: neither game over nor paused.
Thm_C6 ==
  [][game_over
       => /\ last' # "reset"
               => UNCHANGED <<cells, apple, score, dir, game_over>>
          /\ last' = "reset" => (~game_over' /\ ~pause')]_vars

\* a call has run with game_over set and returned at the game_over test
Witness_C6 == game_over /\ last = "over"

\* C7: a call that starts and ends paused leaves the countdown, the
\* creature, the target, the score, the travel direction, game_over and the
\* pending directions as they were.
Thm_C7 ==
  [][(pause /\ pause')
       => UNCHANGED <<step_cooldown, cells, apple, score, dir, game_over,
                      next_dirs>>]_vars

\* a call has run in a paused session, with neither a toggle nor a reset
Witness_C7 == pause /\ last = "paused"

\* the frames that submit a direction and nothing else: a direction key is
\* down, SPACE and R are not
SubmitFrames ==
  {keys \in KeySets :
     pressed_dir(keys) # <<>> /\ "SPACE" \notin keys /\ "R" \notin keys}

\* C8 (as claimed): a direction submitted while paused (and not game over)
\* is appended to the pending directions.
CE_C8 ==
  [][(pause /\ ~game_over)
       => \A keys \in SubmitFrames, dt \in DeltaTimes :
            update_game(keys, dt)
              => next_dirs' = next_dirs \o pressed_dir(keys)]_vars

\* C8 (amended): a direction submitted while paused (and not game over) is
\* not appended: the call leaves the pending directions as they were and the
\* session paused, so no later step consumes it.
Thm_C8 ==
  [][(pause /\ ~game_over)
       => \A keys \in SubmitFrames, dt \in DeltaTimes :
            update_game(keys, dt) => (next_dirs' = next_dirs /\ pause')]_vars

\* a call has run in a paused session with a direction key down
Witness_C8 == pause /\ ~game_over /\ last = "paused" /\ dropped

\* C9: whatever the state, a reset leaves the creature [(0,0),(1,0),(2,0)],
\* travel direction RIGHT, score 0, neither paused nor game over, no pending
\* direction, and a target on a cell of the grid that is no cell of the
\* creature; so does a reset that follows a reset.
Thm_C9 ==
  [][last' = "reset"
       => /\ cells' = <<<<0, 0>>, <<1, 0>>, <<2, 0>>>>
          /\ dir' = RIGHT
          /\ score' = 0
          /\ ~pause'
          /\ ~game_over'
          /\ next_dirs' = <<>>
          /\ apple' \in Grid
          /\ \A i \in 1..Len(cells') : cells'[i] # apple']_vars

\* a reset has run
Witness_C9 == last = "reset" /\ ~pause /\ ~game_over /\ score = 0

\* C10 (as claimed): right after creation or reset the countdown equals the
\* step interval.
CE_C10 == last \in {"init", "reset"} => step_cooldown = STEP_INTERVAL

\* C10 (amended): right after creation or reset the countdown equals 0, so
\* the first call that gets past the pause test runs a simulation step,
\* whatever its dt.
Thm_C10 ==
  /\ [](last \in {"init", "reset"} => step_cooldown = 0)
  /\ [][(last \in {"init", "reset"}
           /\ last' \notin {"reset", "pause_on", "paused"})
          => last' \in StepTags]_vars

\* a reset has run and left the countdown at 0
Witness_C10 == last = "reset" /\ step_cooldown = 0

\* C11 (as claimed): a growth step that brings the creature to length
\* COLS * ROWS leaves the target absent, and an absent target stays absent
\* until a reset.
CE_C11 ==
  [][/\ (last' = "grow" /\ Len(cells') = COLS * ROWS) => apple' = None
     /\ (apple = None /\ last' # "reset") => apple' = None]_vars

\* C12: after a placement on a creature whose length is not COLS * ROWS (at
\* creation, at a reset, in a growth step after the append) the target lies
\* in [0, COLS) x [0, ROWS) and is no cell of the creature.
Thm_C12 ==
  (last \in {"init", "reset", "grow"} /\ Len(cells) # COLS * ROWS)
    => /\ apple # None
       /\ apple[1] \in 0..(COLS - 1)
       /\ apple[2] \in 0..(ROWS - 1)
       /\ \A i \in 1..Len(cells) : cells[i] # apple

\* a growth step has placed a target with the creature short of full length
Witness_C12 == last = "grow" /\ Len(cells) = 4 /\ apple # None

\* C13: while game_over holds, a call whose frame submits a direction can
\* always be made, and every call whose frame holds neither SPACE nor R (a
\* frame that submits a direction is one) leaves the pending directions and
\* every other field of the session as they were.
Thm_C13 ==
  /\ [](game_over
          => \A keys \in SubmitFrames, dt \in DeltaTimes :
               ENABLED update_game(keys, dt))
  /\ [][(game_over /\ pause' = pause /\ last' # "reset")
          => UNCHANGED <<cells, dir, next_dirs, game_over, pause,
                         step_cooldown, score, apple, hung>>]_vars

\* a call has run with game_over set, not paused, and a direction key down
Witness_C13 == game_over /\ ~pause /\ last = "over" /\ dropped

\* C14: a simulation step takes exactly one entry, the oldest, off the
\* pending directions when there is one at that point (the direction the
\* same call queued counts), also when it discards it as a reversal, and
\* none otherwise; a call that runs no step takes none and only appends.  So
\* directions leave in the order they were submitted, one per step.
Thm_C14 ==
  [][/\ last' \in StepTags
          => \/ /\ deq' = <<>>
                /\ next_dirs = <<>>
                /\ next_dirs' = <<>>
             \/ /\ Len(deq') = 1
                /\ \/ deq' \o next_dirs' = next_dirs
                   \/ \E d \in Direction :
                        deq' \o next_dirs' = next_dirs \o <<d>>
     /\ last' \in {"wait", "over", "paused", "pause_on"}
          => /\ deq' = <<>>
             /\ \/ next_dirs' = next_dirs
                \/ \E d \in Direction : next_dirs' = next_dirs \o <<d>>]_vars

\* a step has taken one direction off the queue and left a later one on it
Witness_C14 == last \in StepTags /\ Len(deq) = 1 /\ Len(next_dirs) = 1

\* the neighbour of cell c in direction d on the torus, written out
Advance(c, d) ==
  CASE d = LEFT  -> <<IF c[1] = 0 THEN COLS - 1 ELSE c[1] - 1, c[2]>>
    [] d = RIGHT -> <<IF c[1] = COLS - 1 THEN 0 ELSE c[1] + 1, c[2]>>
    [] d = UP    -> <<c[1], IF c[2] = 0 THEN ROWS - 1 ELSE c[2] - 1>>
    [] d = DOWN  -> <<c[1], IF c[2] = ROWS - 1 THEN 0 ELSE c[2] + 1>>

\* C15: a simulation step that finds no pending direction is carried out
\* like any other: the travel direction stays, and either the head advances
\* to the neighbouring cell in that direction, or that cell is a cell of the
\* creature and the step ends the game with the creature where it was.
Thm_C15 ==
  [][(last' \in StepTags /\ deq' = <<>>)
       => /\ dir' = dir
          /\ \/ /\ game_over' = game_over
                /\ head(cells') = Advance(head(cells), dir)
             \/ /\ game_over'
                /\ cells' = cells
                /\ \E i \in 1..Len(cells) :
                     cells[i] = Advance(head(cells), dir)]_vars

\* a step with nothing pending has just moved the head on
Witness_C15 == last = "move" /\ deq = <<>> /\ ~game_over

\* C16: every cell of the creature has whole coordinates with 0 <= x < COLS
\* and 0 <= y < ROWS, because one step from any cell of the grid in any
\* direction ends on the grid, also where the sum of the coordinates is -1,
\* COLS or ROWS.
Thm_C16 ==
  /\ \A i \in 1..Len(cells) :
       /\ cells[i][1] \in Int /\ 0 <= cells[i][1] /\ cells[i][1] < COLS
       /\ cells[i][2] \in Int /\ 0 <= cells[i][2] /\ cells[i][2] < ROWS
  /\ \A x \in 0..(COLS - 1), y \in 0..(ROWS - 1), d \in Direction :
       LET c == cell_step(Vector2(x, y), directions[d])
       IN  /\ 0 <= c[1] /\ c[1] < COLS
           /\ 0 <= c[2] /\ c[2] < ROWS

\* the head has just left column 0 to the left and is in the last column
Witness_C16 ==
  /\ last \in {"move", "grow"}
  /\ dir = LEFT
  /\ Len(cells) >= 2
  /\ cells[Len(cells) - 1][1] = 0
  /\ head(cells)[1] = COLS - 1

\* ---- cell_step and opposite_dir on their own: walks on the grid from any
\* cell in any direction, going on or turning back.  cells is the walk so
\* far, next_dirs the direction of each of its steps, deq the direction the
\* last turn left.

\* the longest walk: once round the longer side of the grid
WalkLen == IF COLS > ROWS THEN COLS ELSE ROWS

WalkInit ==
  /\ cells \in {<<c>> : c \in Grid}
  /\ dir \in Direction
  /\ next_dirs = <<>>
  /\ deq = <<>>
  /\ last = "init"
  /\ game_over = FALSE
  /\ pause = FALSE
  /\ step_cooldown = reset_cooldown
  /\ score = 0
  /\ apple = None
  /\ hung = FALSE
  /\ dropped = FALSE

\* one application of cell_step to the end of the walk
Walk ==
  /\ Len(next_dirs) < WalkLen
  /\ cells' = Append(cells, cell_step(head(cells), directions[dir]))
  /\ next_dirs' = Append(next_dirs, dir)
  /\ last' = "walk"
  /\ UNCHANGED <<dir, deq, game_over, pause, step_cooldown, score, apple,
                 hung, dropped>>

\* one application of opposite_dir to the direction of the walk
TurnBack ==
  /\ dir' = opposite_dir(dir)
  /\ deq' = <<dir>>
  /\ last' = "turn"
  /\ UNCHANGED <<cells, next_dirs, game_over, pause, step_cooldown, score,
                 apple, hung, dropped>>

WalkNext == Walk \/ TurnBack

SpecWalk == WalkInit /\ [][WalkNext]_vars

\* steps i..j-1 of the walk all go in direction d
Straight(i, j, d) == \A k \in i..(j - 1) : next_dirs[k] = d

\* C17: from every cell of the grid, COLS steps LEFT or COLS steps RIGHT
\* lead back to the cell, ROWS steps UP or ROWS steps DOWN lead back to it,
\* and a step in any direction followed by a step in the opposite direction
\* leads back to it.
Thm_C17 ==
  /\ \A i \in 1..Len(cells), d \in {LEFT, RIGHT} :
       (i + COLS <= Len(cells) /\ Straight(i, i + COLS, d))
         => cells[i + COLS] = cells[i]
  /\ \A i \in 1..Len(cells), d \in {UP, DOWN} :
       (i + ROWS <= Len(cells) /\ Straight(i, i + ROWS, d))
         => cells[i + ROWS] = cells[i]
  /\ \A i \in 1..Len(cells) :
       (i + 2 <= Len(cells) /\ next_dirs[i + 1] = opposite_dir(next_dirs[i]))
         => cells[i + 2] = cells[i]

\* a walk of COLS steps LEFT from column 0 is back where it began
Witness_C17 ==
  /\ Len(next_dirs) = COLS
  /\ Straight(1, COLS + 1, LEFT)
  /\ cells[1][1] = 0
  /\ cells[2][1] = COLS - 1
  /\ head(cells) = cells[1]

\* C18: the opposite of a direction is another direction, its unit vector
\* is the negated unit vector, the opposite of the opposite is the direction
\* itself, and the pairs are LEFT with RIGHT and UP with DOWN.
Thm_C18 ==
  /\ opposite_dir(opposite_dir(dir)) = dir
  /\ opposite_dir(dir) # dir
  /\ directions[opposite_dir(dir)]
       = Vector2(0 - directions[dir][1], 0 - directions[dir][2])
  /\ opposite_dir(dir) = Reverse(dir)
  /\ deq # <<>>
       => /\ dir = Reverse(deq[1])
          /\ dir # deq[1]
          /\ opposite_dir(dir) = deq[1]
          /\ directions[dir]
               = Vector2(0 - directions[deq[1]][1], 0 - directions[deq[1]][2])

\* the walk has turned back from UP and now goes DOWN
Witness_C18 == last = "turn" /\ deq = <<UP>> /\ dir = DOWN

\* C19: each cell of the creature after the first is a neighbour of the cell
\* before it on the torus: one step from it in some direction.
Thm_C19 ==
  \A i \in 1..(Len(cells) - 1) :
    \E d \in Direction :
      /\ cells[i + 1] = Advance(cells[i], d)
      /\ cells[i + 1] = cell_step(cells[i], directions[d])

\* the creature has moved round a corner and across the edge of the grid
Witness_C19 ==
  /\ last = "move"
  /\ Len(cells) >= 3
  /\ cells[1][1] # cells[3][1]
  /\ cells[1][2] # cells[3][2]
  /\ cells[2][1] = COLS - 1
  /\ cells[3][1] = 0

\* C20: the creature never has more cells than the grid.
Thm_C20 == Len(cells) <= COLS * ROWS

\* the creature fills the grid
Witness_C20 == Len(cells) = COLS * ROWS /\ last = "grow"

\* C21 (as claimed): the fraction step_cooldown / STEP_INTERVAL that
\* render_snake draws with is at least 0 and below 1.
CE_C21 == 0 <= step_cooldown /\ step_cooldown < STEP_INTERVAL

\* C21 (amended): the fraction step_cooldown / STEP_INTERVAL is at least 0
\* and at most 1, and it is exactly 1 in the state a simulation step leaves.
Thm_C21 ==
  /\ 0 <= step_cooldown
  /\ step_cooldown <= STEP_INTERVAL
  /\ last \in StepTags => step_cooldown = STEP_INTERVAL

\* a step has just moved the creature, which the next frame will draw
Witness_C21 ==
  last = "move" /\ ~game_over /\ ~pause /\ step_cooldown = STEP_INTERVAL

\* C22: a call that gets past the pause and game_over tests and whose
\* decremented countdown is still above 0 stores that countdown and leaves
\* the creature, the target, the score, the travel direction and game_over
\* as they were; it takes nothing off the pending directions, which change
\* only by the direction the same frame submits, if any.
Thm_C22 ==
  [][(~game_over /\ ~pause' /\ last' # "reset")
       => \A dt \in DeltaTimes, keys \in KeySets :
            (step_cooldown - dt > 0 /\ update_game(keys, dt))
              => /\ step_cooldown' = step_cooldown - dt
                 /\ UNCHANGED <<cells, apple, score, dir, game_over>>
                 /\ deq' = <<>>
                 /\ next_dirs' = next_dirs \o pressed_dir(keys)
                 /\ pressed_dir(keys) = <<>> => next_dirs' = next_dirs]_vars

\* a call has left 55 ms of a running countdown and a pending direction
Witness_C22 ==
  /\ last = "wait"
  /\ ~game_over /\ ~pause
  /\ step_cooldown > 0 /\ step_cooldown < STEP_INTERVAL
  /\ next_dirs # <<>>

\* C23: a call performs at most one simulation step, also when its dt is
\* longer than several intervals: the creature is the old one, the old one
\* grown by the neighbouring cell, or the old one moved on by it, at most one
\* direction is taken off the queue and the score rises by at most 1; and
\* every call that steps leaves exactly STEP_INTERVAL on the countdown.  A
\* call with such a long dt can be made in every running state, and steps.
Thm_C23 ==
  /\ []((~game_over /\ ~pause)
          => \A dt \in DeltaTimes :
               dt > 3 * STEP_INTERVAL
                 => ENABLED (update_game({}, dt) /\ last' \in StepTags))
  /\ [][last' \in StepTags
          => /\ step_cooldown' = STEP_INTERVAL
             /\ Len(deq') <= 1
             /\ Len(next_dirs') >= Len(next_dirs) - 1
             /\ score' \in {score, score + 1}
             /\ LET h == Advance(head(cells), dir')
                IN  cells' \in {cells, Append(cells, h), Tail(cells) \o <<h>>}]_vars

\* a step has grown the creature for the first time and rearmed the countdown
Witness_C23 == last = "grow" /\ score = 1 /\ step_cooldown = STEP_INTERVAL

\* C24 (as claimed): no two cells of the creature are the same cell.
CE_C24 ==
  \A i \in 1..Len(cells), j \in 1..Len(cells) :
    i # j => cells[i] # cells[j]

\* C25: the score is the number of cells the creature has gained over its
\* first three: it is never negative, the length is never below 3, and from
\* one state to the next without a reset the score never falls and rises,
\* by exactly 1, in exactly the steps that add a cell to the creature.
Thm_C25 ==
  /\ [](score = Len(cells) - Len(reset_cells))
  /\ [](score >= 0 /\ Len(cells) >= 3)
  /\ [][last' # "reset"
          => /\ score' >= score
             /\ score' # score <=> Len(cells') = Len(cells) + 1
             /\ score' # score => (score' = score + 1 /\ last' = "grow")
             /\ Len(cells') \in {Len(cells), Len(cells) + 1}]_vars

\* the creature has grown twice
Witness_C25 == last = "grow" /\ score = 2 /\ Len(cells) = 5

\* the cells of the grid the creature does not occupy
FreeCells == {c \in Grid : \A i \in 1..Len(cells) : cells[i] # c}

\* C26: whenever the creature's length differs from COLS * ROWS some cell of
\* the grid is free, so the sampling loop of new_apple, which is entered
\* with just such a creature, has a sample to leave with: no placement is
\* ever left sampling for ever.
Thm_C26 ==
  /\ ~hung
  /\ last # "hang"
  /\ Len(cells) # COLS * ROWS
       => /\ FreeCells # {}
          /\ new_apple(cells, apple) # {}
  /\ (last \in {"init", "reset", "grow"} /\ Len(cells) # COLS * ROWS)
       => apple \in FreeCells

\* a placement has found the one cell left free
Witness_C26 ==
  /\ last = "grow"
  /\ Len(cells) = COLS * ROWS - 1
  /\ Cardinality(FreeCells) = 1
  /\ apple \in FreeCells

\* ---- the session under a main loop that keeps calling update_game with
\* frame times above 0

\* neither paused nor over
Running == ~pause /\ ~game_over

\* a call in a running session, with a frame time above 0 and neither SPACE
\* nor R down
RunningTick ==
  /\ Running
  /\ \E keys \in KeySets, dt \in DeltaTimes :
       /\ dt > 0
       /\ keys \cap {"SPACE", "R"} = {}
       /\ update_game(keys, dt)

LiveSpec == Init /\ [][Next]_vars /\ WF_vars(RunningTick)

====
